---------------------------- MODULE Spec2Model ----------------------------
(***************************************************************************)
(* A model of DensityCalc.py: the UnitConverter class and the 'Calculate   *)
(* Density' handler of density_calculation_app.                            *)
(*                                                                         *)
(* Every number the program handles is a Python float, an IEEE-754 binary64*)
(* value, and every operator of the program (+, -, *, /, <=) rounds to the *)
(* nearest binary64, ties to even.  The model keeps that arithmetic: a     *)
(* float is a sign, a 53-bit mantissa and an exponent, the mantissa held   *)
(* as a sequence of 15-bit limbs because TLC's integers are 32 bits wide.  *)
(***************************************************************************)
EXTENDS Integers, Sequences, FiniteSets

(***************************************************************************)
(* Natural numbers of any size: little-endian sequences of limbs in        *)
(* 0..Base-1 with no leading zero limb; <<>> is zero.                      *)
(***************************************************************************)
LimbBits == 3 * 5
Base == 2^LimbBits

Pow2(n) == 2^n

RECURSIVE BNorm(_)
BNorm(a) ==
  IF a = <<>> THEN a
  ELSE IF a[Len(a)] = 0 THEN BNorm(SubSeq(a, 1, Len(a) - 1)) ELSE a

BRest(a) == IF a = <<>> THEN a ELSE Tail(a)
BLow(a) == IF a = <<>> THEN 0 ELSE Head(a)

BFromInt(n) ==
  BNorm(<<n % Base, (n \div Base) % Base, n \div (Base * Base)>>)

RECURSIVE BAddC(_, _, _)
BAddC(a, b, c) ==
  IF a = <<>> /\ b = <<>> THEN (IF c = 0 THEN <<>> ELSE <<c>>)
  ELSE LET s == BLow(a) + BLow(b) + c
       IN  <<s % Base>> \o BAddC(BRest(a), BRest(b), s \div Base)

BAdd(a, b) == BAddC(a, b, 0)

\* a - b - c for a >= b + c, before the leading zeros are dropped
RECURSIVE BSubC(_, _, _)
BSubC(a, b, c) ==
  IF a = <<>> THEN <<>>
  ELSE LET d == Head(a) - BLow(b) - c
       IN  IF d < 0 THEN <<d + Base>> \o BSubC(Tail(a), BRest(b), 1)
           ELSE <<d>> \o BSubC(Tail(a), BRest(b), 0)

BSub(a, b) == BNorm(BSubC(a, b, 0))

\* -1, 0, 1 as a < b, a = b, a > b
RECURSIVE BCmpAt(_, _, _)
BCmpAt(a, b, i) ==
  IF i = 0 THEN 0
  ELSE IF a[i] < b[i] THEN -1
  ELSE IF a[i] > b[i] THEN 1
  ELSE BCmpAt(a, b, i - 1)

BCmp(a, b) ==
  IF Len(a) < Len(b) THEN -1
  ELSE IF Len(a) > Len(b) THEN 1
  ELSE BCmpAt(a, b, Len(a))

RECURSIVE BMulSmallC(_, _, _)
BMulSmallC(a, d, c) ==
  IF a = <<>> THEN (IF c = 0 THEN <<>> ELSE <<c>>)
  ELSE LET p == Head(a) * d + c
       IN  <<p % Base>> \o BMulSmallC(Tail(a), d, p \div Base)

BMulSmall(a, d) == IF d = 0 THEN <<>> ELSE BMulSmallC(a, d, 0)

RECURSIVE BMulAcc(_, _)
BMulAcc(a, b) ==
  IF b = <<>> THEN <<>>
  ELSE BAdd(BMulSmall(a, Head(b)), <<0>> \o BMulAcc(a, Tail(b)))

BMul(a, b) == IF a = <<>> \/ b = <<>> THEN <<>> ELSE BNorm(BMulAcc(a, b))

BZeros(n) == [i \in 1..n |-> 0]

BShl(a, n) ==
  IF a = <<>> THEN a
  ELSE BZeros(n \div LimbBits) \o BMulSmall(a, Pow2(n % LimbBits))

\* a divided by the limb d, rounded down: from the top limb, r the running remainder
RECURSIVE BDivSmallAt(_, _, _, _)
BDivSmallAt(a, d, i, r) ==
  IF i = 0 THEN <<>>
  ELSE LET t == r * Base + a[i]
       IN  BDivSmallAt(a, d, i - 1, t % d) \o <<t \div d>>

BDivSmall(a, d) == BNorm(BDivSmallAt(a, d, Len(a), 0))

BShr(a, n) ==
  IF n \div LimbBits >= Len(a) THEN <<>>
  ELSE BDivSmall(SubSeq(a, n \div LimbBits + 1, Len(a)), Pow2(n % LimbBits))

\* bit i (bit 0 the lowest) of a
BBit(a, i) ==
  IF i \div LimbBits >= Len(a) THEN 0
  ELSE (a[i \div LimbBits + 1] \div Pow2(i % LimbBits)) % 2

\* whether one of the n lowest bits of a is set
BLowBitsSet(a, n) ==
  \/ \E i \in 1..Len(a) : i <= n \div LimbBits /\ a[i] # 0
  \/ /\ n \div LimbBits < Len(a)
     /\ a[n \div LimbBits + 1] % Pow2(n % LimbBits) # 0

RECURSIVE IntBitLen(_)
IntBitLen(n) == IF n = 0 THEN 0 ELSE 1 + IntBitLen(n \div 2)

BBitLen(a) ==
  IF a = <<>> THEN 0 ELSE LimbBits * (Len(a) - 1) + IntBitLen(a[Len(a)])

BIsOdd(a) == a # <<>> /\ a[1] % 2 = 1


Max(i, j) == IF i >= j THEN i ELSE j
Min(i, j) == IF i <= j THEN i ELSE j

(***************************************************************************)
(* Python floats.  A float is a record [k, s, m, e]: k is "fin", "inf" or  *)
(* "nan"; a finite float is (-1)^s * m * 2^e, where either m has exactly   *)
(* MantBits bits (a normal number), or e = MinExp and m has fewer (zero    *)
(* and the subnormal numbers).  Zero is m = <<>>, e = 0, of either sign.   *)
(***************************************************************************)
MantBits == 53
MinExp == -1074
MaxExp == 971

FZero(s) == [k |-> "fin", s |-> s, m |-> <<>>, e |-> 0]
FInf(s) == [k |-> "inf", s |-> s, m |-> <<>>, e |-> 0]
FNaN == [k |-> "nan", s |-> 0, m |-> <<>>, e |-> 0]

FIsZero(x) == x.k = "fin" /\ x.m = <<>>
SignXor(s, t) == IF s = t THEN 0 ELSE 1

\* the float of sign s, mantissa m and exponent e: zero on underflow, infinity on
\* overflow
FPack(s, m, e) ==
  IF m = <<>> THEN FZero(s)
  ELSE IF e > MaxExp THEN FInf(s)
  ELSE [k |-> "fin", s |-> s, m |-> m, e |-> e]

\* a mantissa that rounding up has carried to MantBits + 1 bits moves up a binade
FCarry(s, m, e) ==
  IF BBitLen(m) > MantBits THEN FPack(s, BShr(m, 1), e + 1) ELSE FPack(s, m, e)

\* Whether M, cut by its sh lowest bits, rounds up: the first bit cut is set and
\* either a lower bit is (or the sticky bit), or the last bit kept is (a tie goes
\* to the even mantissa).
RoundsUp(M, sh, sticky) ==
  /\ BBit(M, sh - 1) = 1
  /\ (sticky \/ BLowBitsSet(M, sh - 1) \/ BBit(M, sh) = 1)

\* FRound for a nonzero M, e the exponent of the result before a carry
FRoundAt(s, M, E, sticky, e) ==
  IF e <= E THEN FPack(s, BShl(M, E - e), e)
  ELSE FCarry(s, BAdd(BShr(M, e - E), IF RoundsUp(M, e - E, sticky) THEN <<1>> ELSE <<>>), e)

\* The float nearest to (-1)^s * (M + f) * 2^E, ties to even, where f = 0 when
\* sticky is false and 0 < f < 1 when it is true (then M has more than MantBits
\* bits, so f only breaks ties).
FRound(s, M, E, sticky) ==
  IF M = <<>> THEN FZero(s)
  ELSE FRoundAt(s, M, E, sticky, Max(E + BBitLen(M) - MantBits, MinExp))

\* float(n) of a Python int n
FInt(n) ==
  FRound(IF n >= 0 THEN 0 ELSE 1, BFromInt(IF n >= 0 THEN n ELSE 0 - n), 0, FALSE)

\* the float 2^n, for MinExp <= n <= MaxExp + MantBits - 1
FPow2(n) == FRound(0, <<1>>, n, FALSE)

FNeg(x) == [x EXCEPT !.s = 1 - x.s]
FAbs(x) == [x EXCEPT !.s = 0]

\* the difference of the magnitudes a * 2^e and b * 2^e of signs sa and sb, c
\* their order
FSubMag(sa, a, sb, b, e, c) ==
  IF c = 0 THEN FZero(0)
  ELSE FRound(IF c > 0 THEN sa ELSE sb, IF c > 0 THEN BSub(a, b) ELSE BSub(b, a), e, FALSE)

\* (-1)^sa * a * 2^e + (-1)^sb * b * 2^e
FAddAligned(sa, a, sb, b, e) ==
  IF sa = sb THEN FRound(sa, BAdd(a, b), e, FALSE)
  ELSE FSubMag(sa, a, sb, b, e, BCmp(a, b))

\* x + y for finite nonzero x and y with x.e >= y.e.  When y lies wholly below
\* the last place of x it only decides the rounding, as a sticky bit under two
\* more bits of x.
FAddOrdered(x, y) ==
  IF x.e - y.e >= MantBits + 3
  THEN FRound(x.s, BSub(BShl(x.m, 2), IF x.s = y.s THEN <<>> ELSE <<1>>), x.e - 2, TRUE)
  ELSE FAddAligned(x.s, BShl(x.m, x.e - y.e), y.s, y.m, y.e)

\* x + y
FAdd(x, y) ==
  IF x.k = "nan" \/ y.k = "nan" THEN FNaN
  ELSE IF x.k = "inf" THEN (IF y.k = "inf" /\ y.s # x.s THEN FNaN ELSE x)
  ELSE IF y.k = "inf" THEN y
  ELSE IF x.m = <<>> /\ y.m = <<>> THEN FZero(IF x.s = 1 /\ y.s = 1 THEN 1 ELSE 0)
  ELSE IF x.m = <<>> THEN y
  ELSE IF y.m = <<>> THEN x
  ELSE FAddOrdered(IF x.e >= y.e THEN x ELSE y, IF x.e >= y.e THEN y ELSE x)

\* x - y
FSub(x, y) == FAdd(x, FNeg(y))

\* x * y
FMul(x, y) ==
  IF x.k = "nan" \/ y.k = "nan" THEN FNaN
  ELSE IF x.k = "inf" \/ y.k = "inf"
       THEN (IF FIsZero(x) \/ FIsZero(y) THEN FNaN ELSE FInf(SignXor(x.s, y.s)))
  ELSE FRound(SignXor(x.s, y.s), BMul(x.m, y.m), x.e + y.e, FALSE)

BLimb(a, i) == IF i >= 1 /\ i <= Len(a) THEN a[i] ELSE 0

\* the largest of est, est - 1, est - 2 whose product with d is at most r
DivCorrect(r, d, est) ==
  IF BCmp(BMulSmall(d, est), r) <= 0 THEN est
  ELSE IF BCmp(BMulSmall(d, est - 1), r) <= 0 THEN est - 1
  ELSE est - 2

\* The largest limb q with q * d <= r, for r < d * Base and the top limb of d at
\* least Base / 2: the quotient of the two top limbs of r by the top limb of d
\* is q, q + 1 or q + 2 (Knuth, TAOCP 4.3.1, theorem B).
DivDigit(r, d) ==
  DivCorrect(r, d,
    Min((BLimb(r, Len(d) + 1) * Base + BLimb(r, Len(d))) \div d[Len(d)], Base - 1))

\* one more limb q of a quotient: the quotient so far is quot, the remainder
\* times Base is r
DivPut(quot, r, d, q) == <<BNorm(<<q>> \o quot), BSub(r, BMulSmall(d, q))>>

DivStep(quot, r, d) == DivPut(quot, r, d, DivDigit(r, d))

DivNext(p, d) == DivStep(p[1], BShl(p[2], LimbBits), d)

\* <<quotient, remainder>> of r * Base^n by d, for r < d
RECURSIVE DivLimbs(_, _, _)
DivLimbs(r, d, n) ==
  IF n = 0 THEN <<<<>>, r>> ELSE DivNext(DivLimbs(r, d, n - 1), d)

\* the limbs a mantissa fills, and the bits of that many limbs
MantLimbs == (MantBits + LimbBits - 1) \div LimbBits
DivBits == MantLimbs * LimbBits

\* the quotient of the mantissas nx >= ny, from the quotient and remainder qr of
\* nx - ny by ny
FDivOver(s, qr, e) == FRound(s, BAdd(BShl(<<1>>, DivBits), qr[1]), e, qr[2] # <<>>)

\* the quotient of the mantissas nx < ny, from their quotient and remainder qr
FDivUnder(s, qr, e) == FRound(s, qr[1], e, qr[2] # <<>>)

\* (-1)^s * (nx / ny) * 2^(e + DivBits), for mantissas nx and ny of DivBits bits: the
\* quotient is carried to DivBits bits or one more, the remainder deciding the
\* rounding
FDivMant(s, nx, ny, e) ==
  IF BCmp(nx, ny) >= 0
  THEN FDivOver(s, DivLimbs(BSub(nx, ny), ny, MantLimbs), e)
  ELSE FDivUnder(s, DivLimbs(nx, ny, MantLimbs), e)

\* x / y for y # 0 (Python raises ZeroDivisionError on y = 0 before dividing)
FDiv(x, y) ==
  IF x.k = "nan" \/ y.k = "nan" THEN FNaN
  ELSE IF x.k = "inf" THEN (IF y.k = "inf" THEN FNaN ELSE FInf(SignXor(x.s, y.s)))
  ELSE IF y.k = "inf" \/ x.m = <<>> THEN FZero(SignXor(x.s, y.s))
  ELSE FDivMant(SignXor(x.s, y.s),
                BShl(x.m, DivBits - BBitLen(x.m)), BShl(y.m, DivBits - BBitLen(y.m)),
                (x.e - (DivBits - BBitLen(x.m))) - (y.e - (DivBits - BBitLen(y.m))) - DivBits)

\* -1, 0, 1 as the magnitudes a * 2^ea and b * 2^eb compare, for nonzero a and b
FCmpAligned(a, ea, b, eb) ==
  IF ea + BBitLen(a) < eb + BBitLen(b) THEN -1
  ELSE IF ea + BBitLen(a) > eb + BBitLen(b) THEN 1
  ELSE BCmp(BShl(a, ea - Min(ea, eb)), BShl(b, eb - Min(ea, eb)))

\* -1, 0, 1 as |x| < |y|, |x| = |y|, |x| > |y|, for x and y not nan
FCmpMag(x, y) ==
  IF x.k = "inf" THEN (IF y.k = "inf" THEN 0 ELSE 1)
  ELSE IF y.k = "inf" THEN -1
  ELSE IF x.m = <<>> THEN (IF y.m = <<>> THEN 0 ELSE -1)
  ELSE IF y.m = <<>> THEN 1
  ELSE FCmpAligned(x.m, x.e, y.m, y.e)

\* -1, 0, 1 as x < y, x == y, x > y, for x and y not nan (-0.0 == 0.0)
FCmp(x, y) ==
  IF FIsZero(x) /\ FIsZero(y) THEN 0
  ELSE IF FIsZero(x) THEN (IF y.s = 0 THEN -1 ELSE 1)
  ELSE IF FIsZero(y) THEN (IF x.s = 0 THEN 1 ELSE -1)
  ELSE IF x.s # y.s THEN (IF x.s = 0 THEN 1 ELSE -1)
  ELSE (IF x.s = 0 THEN 1 ELSE -1) * FCmpMag(x, y)

\* x <= y, x < y, x == y: false when either is nan
FLe(x, y) == x.k # "nan" /\ y.k # "nan" /\ FCmp(x, y) <= 0
FLt(x, y) == x.k # "nan" /\ y.k # "nan" /\ FCmp(x, y) < 0
FEq(x, y) == x.k # "nan" /\ y.k # "nan" /\ FCmp(x, y) = 0

\* The float a decimal literal n/d denotes (d a power of ten), for instance
\* 101.325 = FLit(101325, 1000): the nearest float to the rational, which is what
\* dividing the two exactly represented integers yields.
FLit(n, d) == FDiv(FInt(n), FInt(d))

(***************************************************************************)
(* The numbers written in the source, as the floats Python reads them.     *)
(***************************************************************************)
F0 == FInt(0)
F32 == FInt(32)
F100 == FInt(100)
F1000 == FInt(1000)
F101_325 == FLit(101325, 1000)
F98_0665 == FLit(980665, 10000)
F0_00689476 == FLit(689476, 100000000)
F0_00980638 == FLit(980638, 100000000)
F273_15 == FLit(27315, 100)
F5over9 == FDiv(FInt(5), FInt(9))
F9over5 == FDiv(FInt(9), FInt(5))

pressure_units == {"barg", "kg/cm2", "pasig", "kPa", "pascal", "mmH2O"}
temp_units == {"C", "F", "K", "R"}

(***************************************************************************)
(* What a call yields: a returned value, or a raised exception with the    *)
(* parts of its message.                                                   *)
(***************************************************************************)
None == [k |-> "none", s |-> 0, m |-> <<>>, e |-> 0]
Return(v) == [exc |-> "none", val |-> v, msg |-> <<>>]
Raise(type, msg) == [exc |-> type, val |-> None, msg |-> msg]

(***************************************************************************)
(* class UnitConverter                                                     *)
(***************************************************************************)
\* convert_pressure, step 1: to the base unit kPa
PressureToBase(value, from_unit) ==
  IF from_unit = "barg" THEN Return(FAdd(FMul(value, F100), F101_325))
  ELSE IF from_unit = "kg/cm2" THEN Return(FMul(value, F98_0665))
  ELSE IF from_unit = "pasig" THEN Return(FMul(value, F0_00689476))
  ELSE IF from_unit = "kPa" THEN Return(value)
  ELSE IF from_unit = "pascal" THEN Return(FDiv(value, F1000))
  ELSE IF from_unit = "mmH2O" THEN Return(FMul(value, F0_00980638))
  ELSE Raise("ValueError", <<"Unknown pressure unit: ", from_unit>>)

\* a mutant of PressureFromBase: barg without the atmospheric offset
PressureFromBaseNoOffset(base_value, to_unit) ==
  IF to_unit = "barg" THEN Return(FDiv(base_value, F100))
  ELSE IF to_unit = "kg/cm2" THEN Return(FDiv(base_value, F98_0665))
  ELSE IF to_unit = "pasig" THEN Return(FDiv(base_value, F0_00689476))
  ELSE IF to_unit = "kPa" THEN Return(base_value)
  ELSE IF to_unit = "pascal" THEN Return(FMul(base_value, F1000))
  ELSE IF to_unit = "mmH2O" THEN Return(FDiv(base_value, F0_00980638))
  ELSE Raise("ValueError", <<"Unknown pressure unit: ", to_unit>>)

\* convert_pressure, step 2: from kPa to the target unit
PressureFromBase(base_value, to_unit) ==
  IF to_unit = "barg" THEN Return(FDiv(FSub(base_value, F101_325), F100))
  ELSE IF to_unit = "kg/cm2" THEN Return(FDiv(base_value, F98_0665))
  ELSE IF to_unit = "pasig" THEN Return(FDiv(base_value, F0_00689476))
  ELSE IF to_unit = "kPa" THEN Return(base_value)
  ELSE IF to_unit = "pascal" THEN Return(FMul(base_value, F1000))
  ELSE IF to_unit = "mmH2O" THEN Return(FDiv(base_value, F0_00980638))
  ELSE Raise("ValueError", <<"Unknown pressure unit: ", to_unit>>)

\* an exception raised in step 1 leaves the method; step 2 runs on the base value
PressureStep2(base, to_unit) ==
  IF base.exc # "none" THEN base ELSE PressureFromBase(base.val, to_unit)

\* a mutant of convert_pressure: equal units short-circuit before any lookup
convert_pressure_shortcut(value, from_unit, to_unit) ==
  IF from_unit = to_unit THEN Return(value)
  ELSE PressureStep2(PressureToBase(value, from_unit), to_unit)

convert_pressure(value, from_unit, to_unit) ==
  PressureStep2(PressureToBase(value, from_unit), to_unit)

\* a mutant of TemperatureToBase: the Celsius offset mistyped as 273.16
TemperatureToBaseTypo(value, from_unit) ==
  IF from_unit = "C" THEN Return(FAdd(value, FLit(27316, 100)))
  ELSE IF from_unit = "F" THEN Return(FAdd(FMul(FSub(value, F32), F5over9), F273_15))
  ELSE IF from_unit = "K" THEN Return(value)
  ELSE IF from_unit = "R" THEN Return(FMul(value, F5over9))
  ELSE Raise("ValueError", <<"Unknown temperature unit: ", from_unit>>)

\* convert_temperature, step 1: to the base unit Kelvin
TemperatureToBase(value, from_unit) ==
  IF from_unit = "C" THEN Return(FAdd(value, F273_15))
  ELSE IF from_unit = "F" THEN Return(FAdd(FMul(FSub(value, F32), F5over9), F273_15))
  ELSE IF from_unit = "K" THEN Return(value)
  ELSE IF from_unit = "R" THEN Return(FMul(value, F5over9))
  ELSE Raise("ValueError", <<"Unknown temperature unit: ", from_unit>>)

\* convert_temperature, step 2: from Kelvin to the target unit
TemperatureFromBase(base_value, to_unit) ==
  IF to_unit = "C" THEN Return(FSub(base_value, F273_15))
  ELSE IF to_unit = "F" THEN Return(FAdd(FMul(FSub(base_value, F273_15), F9over5), F32))
  ELSE IF to_unit = "K" THEN Return(base_value)
  ELSE IF to_unit = "R" THEN Return(FMul(base_value, F9over5))
  ELSE Raise("ValueError", <<"Unknown temperature unit: ", to_unit>>)

TemperatureStep2(base, to_unit) ==
  IF base.exc # "none" THEN base ELSE TemperatureFromBase(base.val, to_unit)

convert_temperature(value, from_unit, to_unit) ==
  TemperatureStep2(TemperatureToBase(value, from_unit), to_unit)

\* a mutant of convert_density: no short-circuit for equal units
convert_density_always_raises(value, from_unit, to_unit) ==
  Raise("ValueError", <<"Density conversion not implemented for this context.">>)

convert_density(value, from_unit, to_unit) ==
  IF from_unit = to_unit THEN Return(value)
  ELSE Raise("ValueError", <<"Density conversion not implemented for this context.">>)

(***************************************************************************)
(* density_calculation_app: the form and the 'Calculate Density' handler.  *)
(***************************************************************************)
VARIABLES
  pressure_value,          \* st.number_input "Pressure Value:"
  pressure_unit,           \* st.selectbox "Pressure Unit:"
  temperature_value,       \* st.number_input "Temperature Value:"
  temperature_unit,        \* st.selectbox "Temperature Unit:"
  molecular_weight,        \* st.number_input "Molecular Weight (g/mol):"
  compressibility_factor,  \* st.number_input "Compressibility Factor (Z):"
  outcome,                 \* what the last run of the handler displayed
  calls,                   \* the converter calls the last run of the handler made
  formula,                 \* the evaluation of the density formula in that run
  UNIVERSAL_GAS_CONSTANT,  \* the module-level gas constant
  converter,               \* the module-level UnitConverter instance
  seen,                    \* history: one earlier invocation, its inputs and outcome
  request,                 \* a direct call of a converter method: its arguments
  result,                  \* what that call yielded
  back                     \* what the call back to the source unit yielded

form == <<pressure_value, pressure_unit, temperature_value, temperature_unit,
          molecular_weight, compressibility_factor>>
display == <<outcome, calls, formula>>
globals == <<UNIVERSAL_GAS_CONSTANT, converter>>
direct == <<request, result, back>>
vars == <<form, display, globals, seen, direct>>

NoOutcome ==
  [kind |-> "none", message |-> <<>>, density |-> None, pressure_pa |-> None,
   temperature_k |-> None, molecular_weight_kg_mol |-> None]
NoFormula == [reached |-> FALSE, numerator |-> None, denominator |-> None]
NoCall == [exc |-> "nocall", val |-> None, msg |-> <<>>]
NoRequest == [fn |-> "none", value |-> None, from_unit |-> "", to_unit |-> ""]

\* st.error with the fixed message of line 115
InvalidInput ==
  [NoOutcome EXCEPT
     !.kind = "InvalidInput",
     !.message = <<"Error: Compressibility Factor (Z) and Temperature must be greater than zero.">>]

\* a mutant of Caught: the catch-all clause placed first
CaughtByCatchAll(raised) ==
  [NoOutcome EXCEPT !.kind = "ComputationError",
                    !.message = <<"An unexpected error occurred during calculation: ">>
                                  \o raised.msg]

\* the except clauses of lines 155-158: a ValueError is shown as a unit conversion
\* error, anything else as an unexpected error, each with the exception's message
Caught(raised) ==
  IF raised.exc = "ValueError"
  THEN [NoOutcome EXCEPT !.kind = "UnitConversionError",
                         !.message = <<"Error in Unit Conversion: ">> \o raised.msg]
  ELSE [NoOutcome EXCEPT !.kind = "ComputationError",
                         !.message = <<"An unexpected error occurred during calculation: ">>
                                       \o raised.msg]

\* a mutant of GuardRejects: strict comparisons, so that zero passes
GuardRejectsStrict(Z, T) == FLt(Z, F0) \/ FLt(T, F0)

\* the guard of line 114
GuardRejects(Z, T) == FLe(Z, F0) \/ FLe(T, F0)

\* lines 139-143 and the display of lines 146-153: Python raises
\* ZeroDivisionError when the denominator is zero, and the handler's last except
\* clause catches it
Divide(numerator, denominator, pressure_pa, temperature_k, molecular_weight_kg_mol) ==
  [outcome |->
     IF FIsZero(denominator)
     THEN Caught(Raise("ZeroDivisionError", <<"float division by zero">>))
     ELSE [kind |-> "DensityResult", message |-> <<>>,
           density |-> FDiv(numerator, denominator),
           pressure_pa |-> pressure_pa,
           temperature_k |-> temperature_k,
           molecular_weight_kg_mol |-> molecular_weight_kg_mol],
   formula |-> [reached |-> TRUE, numerator |-> numerator, denominator |-> denominator]]

\* the operands of the division, lines 140 and 142
Operands(pressure_pa, temperature_k, molecular_weight_kg_mol, Z, R) ==
  Divide(FMul(pressure_pa, molecular_weight_kg_mol), FMul(FMul(Z, R), temperature_k),
         pressure_pa, temperature_k, molecular_weight_kg_mol)

\* a mutant of Evaluate: the pressure left in kPa
EvaluateInKPa(pressure_kpa, temperature_k, MW, Z, R) ==
  Operands(pressure_kpa, temperature_k, FDiv(MW, F1000), Z, R)

\* lines 135-143, with the converted pressure and temperature
Evaluate(pressure_kpa, temperature_k, MW, Z, R) ==
  Operands(FMul(pressure_kpa, F1000), temperature_k, FDiv(MW, F1000), Z, R)

PressureCall(PU) == <<"convert_pressure", PU, "kPa">>
TemperatureCall(TU) == <<"convert_temperature", TU, "K">>

Ran(ev, PU, TU) ==
  [outcome |-> ev.outcome, calls |-> <<PressureCall(PU), TemperatureCall(TU)>>,
   formula |-> ev.formula]

\* lines 126-158, with the converted pressure p and what convert_temperature yielded
AfterTemperature(p, t, PU, TU, MW, Z, R) ==
  IF t.exc # "none"
  THEN [outcome |-> Caught(t), calls |-> <<PressureCall(PU), TemperatureCall(TU)>>,
        formula |-> NoFormula]
  ELSE Ran(Evaluate(p.val, t.val, MW, Z, R), PU, TU)

\* lines 119-158, with what convert_pressure yielded
AfterPressure(p, PU, T, TU, MW, Z, R) ==
  IF p.exc # "none"
  THEN [outcome |-> Caught(p), calls |-> <<PressureCall(PU)>>, formula |-> NoFormula]
  ELSE AfterTemperature(p, convert_temperature(T, TU, "K"), PU, TU, MW, Z, R)

\* The body of the handler, lines 112-158: what it displays, the converter calls it
\* makes in order, and the evaluation of the formula when it gets there.
Handler(P, PU, T, TU, MW, Z, R) ==
  IF GuardRejects(Z, T)
  THEN [outcome |-> InvalidInput, calls |-> <<>>, formula |-> NoFormula]
  ELSE AfterPressure(convert_pressure(P, PU, "kPa"), PU, T, TU, MW, Z, R)

(***************************************************************************)
(* The form's values.  The defaults are the widgets' (lines 91-106); the   *)
(* other values are the ones a user may enter.  The select boxes offer     *)
(* only the supported units: "bar" and "Kelvin" stand for a caller that    *)
(* hands the handler's logic a unit outside them.                          *)
(***************************************************************************)
DefaultPressure == FInt(100)
DefaultTemperature == FLit(29815, 100)
DefaultMolecularWeight == FLit(2801, 100)
DefaultZ == FInt(1)
Tiny == FPow2(0 - 600)

PressureValues == {DefaultPressure, F101_325, F0}
\* the handler is exercised on the selectbox options and on one identifier the
\* converter does not know
PressureUnitChoices == pressure_units \cup {"bar"}
TemperatureValues == {DefaultTemperature, F273_15, F0, FInt(0 - 10), Tiny}
TemperatureUnitChoices == temp_units \cup {"Kelvin"}
MolecularWeights == {DefaultMolecularWeight, FLit(2897, 100), F0, FInt(0 - 5)}
ZFactors == {DefaultZ, F0, Tiny}

\* the fields of the form that differ from the widgets' defaults
Changed ==
    (IF pressure_value = DefaultPressure THEN 0 ELSE 1)
  + (IF pressure_unit = "kPa" THEN 0 ELSE 1)
  + (IF temperature_value = DefaultTemperature THEN 0 ELSE 1)
  + (IF temperature_unit = "K" THEN 0 ELSE 1)
  + (IF molecular_weight = DefaultMolecularWeight THEN 0 ELSE 1)
  + (IF compressibility_factor = DefaultZ THEN 0 ELSE 1)

\* the model explores the forms with at most this many fields changed
MaxChanged == 3

NoSeen == [inputs |-> <<>>, outcome |-> NoOutcome]

\* the module's top level, lines 75-78, and the widgets' defaults
InitApp ==
  /\ pressure_value = DefaultPressure
  /\ pressure_unit = "kPa"
  /\ temperature_value = DefaultTemperature
  /\ temperature_unit = "K"
  /\ molecular_weight = DefaultMolecularWeight
  /\ compressibility_factor = DefaultZ
  /\ outcome = NoOutcome
  /\ calls = <<>>
  /\ formula = NoFormula
  /\ UNIVERSAL_GAS_CONSTANT = FLit(8314, 1000)
  /\ converter = [class |-> "UnitConverter"]
  /\ seen = NoSeen

\* An edit of a widget reruns the script with the button not pressed: nothing is
\* displayed until the next press.
Cleared == outcome' = NoOutcome /\ calls' = <<>> /\ formula' = NoFormula

SetPressureValue(D) ==
  /\ \E v \in D : v # pressure_value /\ pressure_value' = v
  /\ Cleared
  /\ UNCHANGED <<pressure_unit, temperature_value, temperature_unit,
                 molecular_weight, compressibility_factor, globals>>

SetPressureUnit(D) ==
  /\ \E u \in D : u # pressure_unit /\ pressure_unit' = u
  /\ Cleared
  /\ UNCHANGED <<pressure_value, temperature_value, temperature_unit,
                 molecular_weight, compressibility_factor, globals>>

SetTemperatureValue(D) ==
  /\ \E v \in D : v # temperature_value /\ temperature_value' = v
  /\ Cleared
  /\ UNCHANGED <<pressure_value, pressure_unit, temperature_unit,
                 molecular_weight, compressibility_factor, globals>>

SetTemperatureUnit(D) ==
  /\ \E u \in D : u # temperature_unit /\ temperature_unit' = u
  /\ Cleared
  /\ UNCHANGED <<pressure_value, pressure_unit, temperature_value,
                 molecular_weight, compressibility_factor, globals>>

SetMolecularWeight(D) ==
  /\ \E v \in D : v # molecular_weight /\ molecular_weight' = v
  /\ Cleared
  /\ UNCHANGED <<pressure_value, pressure_unit, temperature_value, temperature_unit,
                 compressibility_factor, globals>>

SetCompressibilityFactor(D) ==
  /\ \E v \in D : v # compressibility_factor /\ compressibility_factor' = v
  /\ Cleared
  /\ UNCHANGED <<pressure_value, pressure_unit, temperature_value, temperature_unit,
                 molecular_weight, globals>>

\* a mutant of ClickCalculate: the product Z * R of line 142 stored back into the
\* module-level gas constant
ClickCalculateFoldingZ ==
  /\ \E run \in {Handler(pressure_value, pressure_unit, temperature_value,
                          temperature_unit, molecular_weight, compressibility_factor,
                          UNIVERSAL_GAS_CONSTANT)} :
        /\ outcome' = run.outcome
        /\ calls' = run.calls
        /\ formula' = run.formula
  /\ UNIVERSAL_GAS_CONSTANT' = FMul(compressibility_factor, UNIVERSAL_GAS_CONSTANT)
  /\ UNCHANGED <<form, converter>>

\* st.button('Calculate Density') pressed: the handler runs on the form's values
ClickCalculate ==
  /\ \E run \in {Handler(pressure_value, pressure_unit, temperature_value,
                          temperature_unit, molecular_weight, compressibility_factor,
                          UNIVERSAL_GAS_CONSTANT)} :
        /\ outcome' = run.outcome
        /\ calls' = run.calls
        /\ formula' = run.formula
  /\ UNCHANGED <<form, globals>>

Init == InitApp /\ request = NoRequest /\ result = NoCall /\ back = NoCall

Next ==
  \/ SetPressureValue(PressureValues) /\ Changed' <= MaxChanged /\ UNCHANGED <<seen, direct>>
  \/ SetPressureUnit(PressureUnitChoices) /\ Changed' <= MaxChanged /\ UNCHANGED <<seen, direct>>
  \/ SetTemperatureValue(TemperatureValues) /\ Changed' <= MaxChanged /\ UNCHANGED <<seen, direct>>
  \/ SetTemperatureUnit(TemperatureUnitChoices) /\ Changed' <= MaxChanged /\ UNCHANGED <<seen, direct>>
  \/ SetMolecularWeight(MolecularWeights) /\ Changed' <= MaxChanged /\ UNCHANGED <<seen, direct>>
  \/ SetCompressibilityFactor(ZFactors) /\ Changed' <= MaxChanged /\ UNCHANGED <<seen, direct>>
  \/ ClickCalculate /\ UNCHANGED <<seen, direct>>

Spec == Init /\ [][Next]_vars

(***************************************************************************)
(* The handler invoked again and again, with a history variable: seen      *)
(* keeps one earlier invocation, any one, with the form it ran on and what *)
(* it displayed.                                                           *)
(***************************************************************************)
HistPressureValues == {DefaultPressure, F101_325}
HistPressureUnits == {"kPa", "bar"}
HistTemperatureValues == {DefaultTemperature, Tiny}
HistTemperatureUnits == {"K", "C"}
HistMolecularWeights == {DefaultMolecularWeight, FInt(0 - 5)}
HistZFactors == {DefaultZ, F0, Tiny}

NextHist ==
  \/ SetPressureValue(HistPressureValues) /\ UNCHANGED <<seen, direct>>
  \/ SetPressureUnit(HistPressureUnits) /\ UNCHANGED <<seen, direct>>
  \/ SetTemperatureValue(HistTemperatureValues) /\ UNCHANGED <<seen, direct>>
  \/ SetTemperatureUnit(HistTemperatureUnits) /\ UNCHANGED <<seen, direct>>
  \/ SetMolecularWeight(HistMolecularWeights) /\ UNCHANGED <<seen, direct>>
  \/ SetCompressibilityFactor(HistZFactors) /\ UNCHANGED <<seen, direct>>
  \/ ClickCalculate /\ UNCHANGED <<seen, direct>>
  \/ /\ ClickCalculate
     /\ seen = NoSeen
     /\ seen' = [inputs |-> form', outcome |-> outcome']
     /\ UNCHANGED direct

SpecHist == Init /\ [][NextHist]_vars

(***************************************************************************)
(* The converter's methods called directly: a request is drawn, the method *)
(* is applied, and convert_pressure and convert_temperature are then       *)
(* applied to the value returned, back to the source unit.                 *)
(***************************************************************************)
Samples ==
  <<F0, FInt(1), F32, F273_15, FLit(1, 10), FLit(1, 1000000000), FInt(0 - 10),
    FInt(1000000), FPow2(MinExp), FPow2(900), F101_325, FLit(12345678, 1000),
    FNeg(FLit(4567, 100))>>

\* the sample values the requests draw from, the first NumSamples of Samples
NumSamples == 10
SampleValues == {Samples[i] : i \in 1..Min(NumSamples, Len(Samples))}

DensityUnitChoices == {"kg/m3", "lb/ft3", "g/cc"}

Requests ==
  [fn : {"convert_pressure"}, value : SampleValues,
   from_unit : PressureUnitChoices, to_unit : PressureUnitChoices]
  \cup
  [fn : {"convert_temperature"}, value : SampleValues,
   from_unit : TemperatureUnitChoices, to_unit : TemperatureUnitChoices]
  \cup
  [fn : {"convert_density"}, value : SampleValues,
   from_unit : DensityUnitChoices, to_unit : DensityUnitChoices]

InitConv == InitApp /\ request \in Requests /\ result = NoCall /\ back = NoCall

CallConvertPressure ==
  /\ request.fn = "convert_pressure" /\ result = NoCall
  /\ result' = convert_pressure(request.value, request.from_unit, request.to_unit)
  /\ UNCHANGED <<form, display, globals, seen, request, back>>

CallBackPressure ==
  /\ request.fn = "convert_pressure" /\ result.exc = "none" /\ back = NoCall
  /\ back' = convert_pressure(result.val, request.to_unit, request.from_unit)
  /\ UNCHANGED <<form, display, globals, seen, request, result>>

CallConvertTemperature ==
  /\ request.fn = "convert_temperature" /\ result = NoCall
  /\ result' = convert_temperature(request.value, request.from_unit, request.to_unit)
  /\ UNCHANGED <<form, display, globals, seen, request, back>>

CallBackTemperature ==
  /\ request.fn = "convert_temperature" /\ result.exc = "none" /\ back = NoCall
  /\ back' = convert_temperature(result.val, request.to_unit, request.from_unit)
  /\ UNCHANGED <<form, display, globals, seen, request, result>>

CallConvertDensity ==
  /\ request.fn = "convert_density" /\ result = NoCall
  /\ result' = convert_density(request.value, request.from_unit, request.to_unit)
  /\ UNCHANGED <<form, display, globals, seen, request, back>>

NextConv ==
  \/ CallConvertPressure
  \/ CallBackPressure
  \/ CallConvertTemperature
  \/ CallBackTemperature
  \/ CallConvertDensity

SpecConv == InitConv /\ [][NextConv]_vars

(***************************************************************************)
(* The properties.                                                         *)
(***************************************************************************)
Displayed == outcome.kind # "none"
Called == result # NoCall
Positive(x) == FLt(F0, x)
NonPositive(x) == FLe(x, F0)

\* |x - y| <= tol, computed in floats as a test would
Within(x, y, tol) == FLe(FAbs(FSub(x, y)), tol)
Tol1em9 == FLit(1, 1000000000)
Tol1em3 == FLit(1, 1000)
\* max(1, |v|)
Scale(v) == IF FLe(FAbs(v), FInt(1)) THEN FInt(1) ELSE FAbs(v)

\* C1: a run of the handler on Z <= 0 or a raw temperature <= 0 displays the
\* invalid-input error, whatever the pressure, the molecular weight and the units
\* (supported or not): it calls no converter, does not evaluate the formula and
\* produces no density.
C1_GuardBeforeConversion ==
  (Displayed /\ (NonPositive(compressibility_factor) \/ NonPositive(temperature_value)))
    => /\ outcome.kind = "InvalidInput"
       /\ calls = <<>>
       /\ ~formula.reached
       /\ outcome.density = None

C1_Witness ==
  /\ outcome.kind = "InvalidInput"
  /\ temperature_value = FInt(0 - 10)
  /\ temperature_unit = "C"
  /\ pressure_unit = "bar"

\* C2: a call of convert_pressure raises ValueError naming the unit when from_unit
\* or to_unit is outside the six pressure units, equal units included (the source
\* unit is looked up first), and returns a float when both are inside; the same for
\* convert_temperature and the four temperature units.
C2_UnknownUnit ==
  /\ (Called /\ request.fn = "convert_pressure") =>
       LET S == {"barg", "kg/cm2", "pasig", "kPa", "pascal", "mmH2O"}
       IN  /\ request.from_unit \notin S =>
                /\ result.exc = "ValueError"
                /\ result.msg = <<"Unknown pressure unit: ", request.from_unit>>
           /\ (request.from_unit \in S /\ request.to_unit \notin S) =>
                /\ result.exc = "ValueError"
                /\ result.msg = <<"Unknown pressure unit: ", request.to_unit>>
           /\ (request.from_unit \in S /\ request.to_unit \in S) =>
                result.exc = "none" /\ result.val # None
  /\ (Called /\ request.fn = "convert_temperature") =>
       LET S == {"C", "F", "K", "R"}
       IN  /\ request.from_unit \notin S =>
                /\ result.exc = "ValueError"
                /\ result.msg = <<"Unknown temperature unit: ", request.from_unit>>
           /\ (request.from_unit \in S /\ request.to_unit \notin S) =>
                /\ result.exc = "ValueError"
                /\ result.msg = <<"Unknown temperature unit: ", request.to_unit>>
           /\ (request.from_unit \in S /\ request.to_unit \in S) =>
                result.exc = "none" /\ result.val # None

C2_Witness ==
  /\ request.fn = "convert_pressure"
  /\ request.from_unit = "bar"
  /\ request.to_unit = "bar"
  /\ result.exc = "ValueError"

\* C3: a run of the handler that passes the guard on a pressure or temperature unit
\* outside the supported set displays the unit conversion error, not the unexpected
\* error, with the converter's message naming the unit: the pressure unit when it is
\* unknown, otherwise the temperature unit; it produces no density.  A density is
\* displayed only by a run that passed the guard, made both conversions on supported
\* units and evaluated the formula.
C3_UnitConversionError ==
  LET PS == {"barg", "kg/cm2", "pasig", "kPa", "pascal", "mmH2O"}
      TS == {"C", "F", "K", "R"}
      passed == Positive(compressibility_factor) /\ Positive(temperature_value)
  IN  /\ (Displayed /\ passed /\ pressure_unit \notin PS) =>
           /\ outcome.kind = "UnitConversionError"
           /\ outcome.message =
                <<"Error in Unit Conversion: ", "Unknown pressure unit: ", pressure_unit>>
           /\ calls = <<<<"convert_pressure", pressure_unit, "kPa">>>>
           /\ outcome.density = None
      /\ (Displayed /\ passed /\ pressure_unit \in PS /\ temperature_unit \notin TS) =>
           /\ outcome.kind = "UnitConversionError"
           /\ outcome.message =
                <<"Error in Unit Conversion: ", "Unknown temperature unit: ",
                  temperature_unit>>
           /\ outcome.density = None
      /\ outcome.density # None =>
           /\ outcome.kind = "DensityResult"
           /\ passed
           /\ pressure_unit \in PS /\ temperature_unit \in TS
           /\ Len(calls) = 2
           /\ formula.reached

C3_Witness ==
  /\ outcome.kind = "UnitConversionError"
  /\ pressure_unit = "bar"
  /\ temperature_unit = "Kelvin"
  /\ outcome.message[3] = "bar"

\* the scenario of C4: 101.325 kPa, 273.15 K, 28.97 g/mol, Z = 1, calculated
AirAtZeroCelsius ==
  /\ Displayed
  /\ pressure_value = FLit(101325, 1000) /\ pressure_unit = "kPa"
  /\ temperature_value = FLit(27315, 100) /\ temperature_unit = "K"
  /\ molecular_weight = FLit(2897, 100)
  /\ compressibility_factor = FInt(1)

\* C4 as stated: the scenario yields a density within 1e-3 of 1.2754 kg/m3.
C4_Original ==
  AirAtZeroCelsius =>
    /\ outcome.kind = "DensityResult"
    /\ Within(outcome.density, FLit(12754, 10000), Tol1em3)

\* C4, amended: the scenario yields the density
\* (1000 * P * (MW / 1000)) / (Z * 8.314 * T), which is within 1e-3 of 1.2926 kg/m3.
C4_Density ==
  AirAtZeroCelsius =>
    /\ outcome.kind = "DensityResult"
    /\ Within(outcome.density, FLit(12926, 10000), Tol1em3)
    /\ outcome.pressure_pa = FMul(pressure_value, FInt(1000))
    /\ outcome.molecular_weight_kg_mol = FDiv(molecular_weight, FInt(1000))
    /\ outcome.temperature_k = temperature_value
    /\ outcome.density =
         FDiv(FMul(outcome.pressure_pa, outcome.molecular_weight_kg_mol),
              FMul(FMul(compressibility_factor, FLit(8314, 1000)), outcome.temperature_k))

C4_Witness == AirAtZeroCelsius /\ outcome.kind = "DensityResult"

\* the values whose conversions stay finite
Huge == FPow2(996)

\* a value converted to the base unit and back to its own, supported, unit
RoundTrip(fn, base, S) ==
  /\ request.fn = fn
  /\ FLe(FAbs(request.value), Huge)
  /\ request.from_unit \in S
  /\ request.to_unit = base
  /\ back # NoCall

\* C5 as stated: the round trip of every pressure value is within 1e-9 relative
\* tolerance of the value, and that of every temperature value equals it.
C5_Original ==
  /\ RoundTrip("convert_pressure", "kPa",
               {"barg", "kg/cm2", "pasig", "kPa", "pascal", "mmH2O"}) =>
       /\ back.exc = "none"
       /\ Within(back.val, request.value, FMul(Tol1em9, FAbs(request.value)))
  /\ RoundTrip("convert_temperature", "K", {"C", "F", "K", "R"}) =>
       /\ back.exc = "none"
       /\ FEq(back.val, request.value)

\* C5, amended: the round trip of every pressure value v through kPa, and of every
\* temperature value through K, is within 1e-9 * max(1, |v|) of v, for |v| <= 2^996.
C5_RoundTrip ==
  /\ RoundTrip("convert_pressure", "kPa",
               {"barg", "kg/cm2", "pasig", "kPa", "pascal", "mmH2O"}) =>
       /\ back.exc = "none"
       /\ Within(back.val, request.value, FMul(Tol1em9, Scale(request.value)))
  /\ RoundTrip("convert_temperature", "K", {"C", "F", "K", "R"}) =>
       /\ back.exc = "none"
       /\ Within(back.val, request.value, FMul(Tol1em9, Scale(request.value)))

C5_Witness ==
  /\ RoundTrip("convert_pressure", "kPa", {"barg"})
  /\ request.value = FLit(1, 1000000000)
  /\ back.exc = "none"
  /\ ~Within(back.val, request.value, FMul(Tol1em9, FAbs(request.value)))

\* a call of convert_temperature or convert_pressure that has returned
Converted(fn, v, from_unit, to_unit) ==
  /\ request = [fn |-> fn, value |-> v, from_unit |-> from_unit, to_unit |-> to_unit]
  /\ Called

\* the four fixed points the converters hit exactly
ExactFixedPoints ==
  /\ Converted("convert_temperature", FInt(0), "C", "K") =>
       result.exc = "none" /\ result.val = FLit(27315, 100)
  /\ Converted("convert_temperature", FInt(32), "F", "C") =>
       result.exc = "none" /\ result.val = FInt(0)
  /\ Converted("convert_pressure", FInt(0), "barg", "kPa") =>
       result.exc = "none" /\ result.val = FLit(101325, 1000)
  /\ Converted("convert_pressure", FInt(1), "kg/cm2", "kPa") =>
       result.exc = "none" /\ result.val = FLit(980665, 10000)

\* C6 as stated: the five fixed points are hit with ==.
C6_Original ==
  /\ ExactFixedPoints
  /\ Converted("convert_temperature", FLit(27315, 100), "K", "R") =>
       result.exc = "none" /\ FEq(result.val, FLit(49167, 100))

\* C6, amended: convert_temperature(0, 'C', 'K') == 273.15,
\* convert_temperature(32, 'F', 'C') == 0, convert_pressure(0, 'barg', 'kPa') ==
\* 101.325 and convert_pressure(1, 'kg/cm2', 'kPa') == 98.0665; and
\* convert_temperature(273.15, 'K', 'R') is 273.15 * (9/5), the float next below
\* 491.67, within 1e-9 of it.
C6_FixedPoints ==
  /\ ExactFixedPoints
  /\ Converted("convert_temperature", FLit(27315, 100), "K", "R") =>
       /\ result.exc = "none"
       /\ result.val = FMul(FLit(27315, 100), FDiv(FInt(9), FInt(5)))
       /\ result.val.e = FLit(49167, 100).e
       /\ BAdd(result.val.m, <<1>>) = FLit(49167, 100).m
       /\ Within(result.val, FLit(49167, 100), Tol1em9)

C6_Witness ==
  /\ Converted("convert_temperature", FLit(27315, 100), "K", "R")
  /\ result.exc = "none"
  /\ FLt(result.val, FLit(49167, 100))

\* C7: a call of convert_density returns its value unchanged when from_unit equals
\* to_unit, whether or not the unit is a known one, and raises the "not implemented"
\* ValueError when they differ; it never returns another value.
C7_DensityIdentity ==
  (Called /\ request.fn = "convert_density") =>
    /\ request.from_unit = request.to_unit =>
         result.exc = "none" /\ result.val = request.value
    /\ request.from_unit # request.to_unit =>
         /\ result.exc = "ValueError"
         /\ result.msg = <<"Density conversion not implemented for this context.">>
         /\ result.val = None
    /\ result.val \in {None, request.value}

C7_Witness ==
  /\ Called
  /\ request.fn = "convert_density"
  /\ request.from_unit = "g/cc"
  /\ request.to_unit = "g/cc"
  /\ result.val = request.value
  /\ request.value # F0

\* C8 as stated: the molecular weight is strictly positive whenever the density
\* formula is evaluated, and no density is displayed for a molecular weight <= 0.
C8_Original ==
  /\ formula.reached => Positive(molecular_weight)
  /\ (Displayed /\ NonPositive(molecular_weight)) => outcome.kind # "DensityResult"

\* the run C8 is refuted by: a negative molecular weight displayed as a density
C8_Reached ==
  /\ molecular_weight = FInt(0 - 5)
  /\ outcome.kind = "DensityResult"
  /\ FLt(outcome.density, F0)

\* C9: two runs of the handler on the same inputs display the same outcome, whatever
\* ran in between, and no run changes the module-level converter or the gas constant
\* 8.314.
C9_Deterministic ==
  /\ (Displayed /\ seen # NoSeen /\ seen.inputs = form) => seen.outcome = outcome
  /\ UNIVERSAL_GAS_CONSTANT = FLit(8314, 1000)
  /\ converter = [class |-> "UnitConverter"]

C9_Witness ==
  /\ Displayed
  /\ seen # NoSeen
  /\ seen.inputs = form
  /\ seen.outcome.kind = "DensityResult"
  /\ calls # <<>>
  /\ compressibility_factor # DefaultZ

\* C10 as stated: whenever the formula is evaluated, Z > 0 and the temperature in
\* Kelvin is > 0, the denominator Z * R * temperature_K is strictly positive and the
\* division does not divide by zero.
C10_Original ==
  /\ formula.reached =>
       /\ Positive(compressibility_factor)
       /\ Positive(formula.denominator)
       /\ outcome.kind = "DensityResult"
  /\ outcome.kind = "DensityResult" => Positive(outcome.temperature_k)

\* the run C10 is refuted by: Z > 0 and T > 0 whose product with R rounds to zero
C10_Reached ==
  /\ formula.reached
  /\ Positive(compressibility_factor)
  /\ formula.denominator = F0
  /\ outcome.kind = "ComputationError"

=============================================================================
